---- MODULE Spec2Model ----
(***************************************************************************)
(* CurvatureSliders (src/curvatureSliders.py): two Meshcat sliders q1, q2  *)
(* are converted by CC2AGRB into eight rigid-body joint positions that     *)
(* Run writes into a plant context in a polling loop.                      *)
(*                                                                         *)
(* Units.  Slider values are integers in hundredths of a radian (the step  *)
(* 0.1 is 10).  Positions are integers in millionths (0.001 is 1000).      *)
(* Time is in hundredths of a second (the sleep of 0.01 s is 1).           *)
(***************************************************************************)
EXTENDS Integers, Sequences, FiniteSets, TLC

(* ---------------------------- bounds ----------------------------------- *)
MaxTime   == 2      \* the wall clock stops advancing here
MaxClicks == 1      \* clicks of the stop button that are modelled
MaxCount  == 3      \* the call counters saturate here

(* ------------------------ program constants ---------------------------- *)
L              == 200000     \* rest length 0.2, in millionths
SliderStep     == 10         \* step=0.1
SliderMax      == 628        \* max=2.0*np.pi, truncated to hundredths
SliderMin      == -628       \* min=-2.0*np.pi
Threshold      == 1000       \* 0.001
SleepInterval  == 1          \* time.sleep(0.01)
DefaultTimeout == 10000000   \* timeout=1e5 seconds
kButtonName    == "Stop Curvature Sliders"

None == -1                   \* a time or a count that has not been read

(* ------------------------------ inputs --------------------------------- *)
\* Arguments the host passes to SetConfiguration (any float is accepted).
ConfigArgs == {-700, 10, 12}
\* Values a user can drag a slider to: multiples of the step in the range.
SliderGrid == {0, 10}
\* Values of Run's timeout parameter.
Timeouts == {-1, 0, 1, DefaultTimeout}

Abs(x) == IF x < 0 THEN -x ELSE x
Min2(a, b) == IF a < b THEN a ELSE b
Sat(n) == Min2(n + 1, MaxCount)

\* Division of floats, in fixed point: the quotient rounded toward zero.
Quot(a, b) ==
    LET q == Abs(a) \div Abs(b)
    IN  IF (a < 0) = (b < 0) THEN q ELSE -q

\* 10^6 * sin(0.05 * k) for k = 1 .. 63.
SinTable ==
    <<49979, 99833, 149438, 198669, 247404, 295520, 342898, 389418, 434966,
      479426, 522687, 564642, 605186, 644218, 681639, 717356, 751280, 783327,
      813416, 841471, 867423, 891207, 912764, 932039, 948985, 963558, 975723,
      985450, 992713, 997495, 999784, 999574, 996865, 991665, 983986, 973848,
      961275, 946300, 928960, 909297, 887362, 863209, 836899, 808496, 778073,
      745705, 711473, 675463, 637765, 598472, 557684, 515501, 472031, 427380,
      381661, 334988, 287478, 239249, 190423, 141120, 91465, 41581, -8407>>

\* np.sin(0.5 * q) in millionths, for q a multiple of the slider step.
SinHalf(q) ==
    LET k == Abs(q) \div SliderStep
    IN  IF k = 0 THEN 0
        ELSE IF q < 0 THEN -SinTable[k] ELSE SinTable[k]

\* 0.5 * q in millionths of a radian.
Half(q) == q * 5000

\* L * np.sin(0.5 * q) / q in millionths.
Chord(q) == Quot((L \div 10000) * SinHalf(q), q)

Straight == <<0, L \div 2, L \div 2, 0>>

Segment(q) ==
    IF q # 0 THEN <<Half(q), Chord(q), Chord(q), Half(q)>> ELSE Straight

CC2AGRB_CopyPaste(q) == Segment(q[1]) \o Segment(q[1])
CC2AGRB(q) ==
    LET q1 == q[1]
        q2 == q[2]
        config1 == Segment(q1)
        config2 == Segment(q2)
    IN  config1 \o config2

\* Meshcat keeps a slider inside its range and on its step: the value is
\* truncated to [min, max] and then rounded to the nearest multiple of step.
RoundToStep(v) ==
    LET n == (2 * Abs(v) + SliderStep) \div (2 * SliderStep)
    IN  IF v < 0 THEN -(n * SliderStep) ELSE n * SliderStep

Clamp(v) == IF v < SliderMin THEN SliderMin
            ELSE IF v > SliderMax THEN SliderMax ELSE v

SetSliderValue(v) == RoundToStep(Clamp(v))

\* (np.abs(new_positions - old_positions) < 0.001).all()
Unchanged_Exact(new, old) == new = old
Unchanged_Inclusive(new, old) ==
    \A i \in 1..Len(new) : Abs(new[i] - old[i]) <= Threshold
Unchanged(new, old) ==
    \A i \in 1..Len(new) : Abs(new[i] - old[i]) < Threshold

\* Line 112: self._meshcat.GetButtonClicks(kButtonName) < 1
KeepPolling_OffByOne(c) == c < 2
KeepPolling_Never(c) == c < 0
KeepPolling(c) == c < 1

\* Line 115: elapsed_t >= timeout
TimedOut_Strict(e, t) == e > t
TimedOut(e, t) == e >= t

\* Default positions of the plant in a context made by CreateDefaultContext.
PlantDefaults ==
    { <<0, 0, 0, 0, 0, 0, 0, 0>>,
      <<0, 100500, 100000, 0, 0, 100000, 100000, -900>>,
      <<1000, 100000, 100000, 0, 0, 100000, 100000, 0>> }

VARIABLES
    pc,              \* position of Run
    slider,          \* Meshcat slider values, [q1, q2]
    hasButton,       \* the stop button has been added
    clicks,          \* clicks of the stop button
    now,             \* time.time()
    timeout,         \* Run's timeout parameter
    t0,              \* time grabbed before the loop
    elapsed_t,       \* elapsed time read in the current iteration
    observed,        \* click count returned by the last poll
    plant,           \* positions in plant_context
    old_positions,
    new_positions,
    output,          \* value of output port q1_q2 at its last evaluation
    published,       \* plant positions at the last diagram.Publish
    sleepArg,        \* argument of the last time.sleep
    trace,           \* calls made since the last poll of the stop button
    polls, pubs, sets, evals,     \* saturating call counters
    lastSet,         \* argument of SetConfiguration, <<>> after a slider move
    movedSinceEval,  \* a slider moved after the last evaluation of the port
    movedMidIter,    \* the last slider move fell between Eval and SetPositions
    setsSinceMove    \* SetPositions calls since the last slider move

vars == <<pc, slider, hasButton, clicks, now, timeout, t0, elapsed_t, observed,
          plant, old_positions, new_positions, output, published, sleepArg,
          trace, polls, pubs, sets, evals, lastSet, movedSinceEval,
          movedMidIter, setsSinceMove>>

loopVars == <<pc, timeout, t0, elapsed_t, observed, plant, old_positions,
              new_positions, output, published, sleepArg, trace, polls, pubs,
              sets, evals, setsSinceMove>>

Init ==
    /\ pc = "start"
    /\ slider = [q1 |-> 0, q2 |-> 0]
    /\ hasButton = FALSE
    /\ clicks = 0
    /\ now = 0
    /\ timeout \in Timeouts
    /\ t0 = None
    /\ elapsed_t = None
    /\ observed = None
    /\ plant = <<>>
    /\ old_positions = <<>>
    /\ new_positions = <<>>
    /\ output = <<>>
    /\ published = <<>>
    /\ sleepArg = None
    /\ trace = <<>>
    /\ polls = 0 /\ pubs = 0 /\ sets = 0 /\ evals = 0
    /\ lastSet = <<>>
    /\ movedSinceEval = FALSE
    /\ movedMidIter = FALSE
    /\ setsSinceMove = 0

(* ---------------------------- environment ------------------------------ *)

\* The host sets both sliders before it calls Run.
SetConfiguration ==
    /\ pc = "start"
    /\ \E a \in ConfigArgs, b \in ConfigArgs :
          /\ slider' = [q1 |-> SetSliderValue(a), q2 |-> SetSliderValue(b)]
          /\ lastSet' = <<a, b>>
    /\ movedSinceEval' = TRUE
    /\ movedMidIter' = FALSE
    /\ setsSinceMove' = 0
    /\ UNCHANGED <<pc, hasButton, clicks, now, timeout, t0, elapsed_t,
                   observed, plant, old_positions, new_positions, output,
                   published, sleepArg, trace, polls, pubs, sets, evals>>

\* A user drags one slider in the browser to another value.
SliderMoved ==
    /\ \E n \in {"q1", "q2"}, v \in SliderGrid :
          /\ slider[n] # v
          /\ slider' = [slider EXCEPT ![n] = v]
    /\ lastSet' = <<>>
    /\ movedSinceEval' = TRUE
    /\ movedMidIter' = (pc \in {"compare", "setpos"})
    /\ setsSinceMove' = 0
    /\ UNCHANGED <<pc, hasButton, clicks, now, timeout, t0, elapsed_t,
                   observed, plant, old_positions, new_positions, output,
                   published, sleepArg, trace, polls, pubs, sets, evals>>

\* A user clicks the stop button.
Click ==
    /\ hasButton
    /\ clicks < MaxClicks
    /\ clicks' = clicks + 1
    /\ UNCHANGED <<slider, hasButton, now, lastSet, movedSinceEval,
                   movedMidIter, loopVars>>

\* The wall clock advances.
Tick ==
    /\ now < MaxTime
    /\ now' = now + 1
    /\ UNCHANGED <<slider, hasButton, clicks, lastSet, movedSinceEval,
                   movedMidIter, loopVars>>

(* -------------------------------- Run ---------------------------------- *)

\* Lines 96-104: the contexts are created and the stop button is added.
AddButton ==
    /\ pc = "start"
    /\ pc' = "t0"
    /\ plant' \in PlantDefaults
    /\ hasButton' = TRUE
    /\ clicks' = 0
    /\ trace' = <<"addbutton">>
    /\ UNCHANGED <<slider, now, timeout, t0, elapsed_t, observed,
                   old_positions, new_positions, output, published, sleepArg,
                   polls, pubs, sets, evals, lastSet, movedSinceEval,
                   movedMidIter, setsSinceMove>>

\* Line 107.
GrabTime ==
    /\ pc = "t0"
    /\ pc' = "publish0"
    /\ t0' = now
    /\ trace' = Append(trace, "t0")
    /\ UNCHANGED <<slider, hasButton, clicks, now, timeout, elapsed_t,
                   observed, plant, old_positions, new_positions, output,
                   published, sleepArg, polls, pubs, sets, evals, lastSet,
                   movedSinceEval, movedMidIter, setsSinceMove>>

\* Line 111.
FirstPublish ==
    /\ pc = "publish0"
    /\ pc' = "poll"
    /\ published' = plant
    /\ pubs' = Sat(pubs)
    /\ trace' = Append(trace, "publish")
    /\ UNCHANGED <<slider, hasButton, clicks, now, timeout, t0, elapsed_t,
                   observed, plant, old_positions, new_positions, output,
                   sleepArg, polls, sets, evals, lastSet, movedSinceEval,
                   movedMidIter, setsSinceMove>>

\* Line 112: the loop condition.
Poll ==
    /\ pc = "poll"
    /\ observed' = clicks
    /\ pc' = IF KeepPolling(clicks) THEN "time" ELSE "done"
    /\ polls' = Sat(polls)
    /\ trace' = <<"poll">>
    /\ elapsed_t' = None
    /\ old_positions' = <<>>
    /\ new_positions' = <<>>
    /\ output' = <<>>
    /\ sleepArg' = None
    /\ UNCHANGED <<slider, hasButton, clicks, now, timeout, t0, plant,
                   published, pubs, sets, evals, lastSet, movedSinceEval,
                   movedMidIter, setsSinceMove>>

\* Lines 114-116.
CheckTimeout ==
    /\ pc = "time"
    /\ elapsed_t' = now - t0
    /\ pc' = IF TimedOut(now - t0, timeout) THEN "done" ELSE "getpos"
    /\ trace' = Append(trace, "time")
    /\ UNCHANGED <<slider, hasButton, clicks, now, timeout, t0, observed,
                   plant, old_positions, new_positions, output, published,
                   sleepArg, polls, pubs, sets, evals, lastSet,
                   movedSinceEval, movedMidIter, setsSinceMove>>

\* Line 119.
GetPositions ==
    /\ pc = "getpos"
    /\ pc' = "eval"
    /\ old_positions' = plant
    /\ trace' = Append(trace, "getpos")
    /\ UNCHANGED <<slider, hasButton, clicks, now, timeout, t0, elapsed_t,
                   observed, plant, new_positions, output, published,
                   sleepArg, polls, pubs, sets, evals, lastSet,
                   movedSinceEval, movedMidIter, setsSinceMove>>

\* Lines 86-91: the port is not cached, so every Eval runs this.
DoCalcOutput_Swapped == <<slider.q2, slider.q1>>
DoCalcOutput == <<slider.q1, slider.q2>>

\* Lines 120-121.
Eval ==
    /\ pc = "eval"
    /\ pc' = "compare"
    /\ output' = DoCalcOutput
    /\ new_positions' = CC2AGRB(DoCalcOutput)
    /\ evals' = Sat(evals)
    /\ movedSinceEval' = FALSE
    /\ trace' = Append(trace, "eval")
    /\ UNCHANGED <<slider, hasButton, clicks, now, timeout, t0, elapsed_t,
                   observed, plant, old_positions, published, sleepArg,
                   polls, pubs, sets, lastSet, movedMidIter, setsSinceMove>>

\* Line 122.
Compare ==
    /\ pc = "compare"
    /\ pc' = IF Unchanged(new_positions, old_positions)
             THEN "sleep" ELSE "setpos"
    /\ UNCHANGED <<slider, hasButton, clicks, now, timeout, t0, elapsed_t,
                   observed, plant, old_positions, new_positions, output,
                   published, sleepArg, trace, polls, pubs, sets, evals,
                   lastSet, movedSinceEval, movedMidIter, setsSinceMove>>

\* Lines 123-124.
Sleep ==
    /\ pc = "sleep"
    /\ pc' = "poll"
    /\ sleepArg' = SleepInterval
    /\ now' = Min2(now + SleepInterval, MaxTime)
    /\ trace' = Append(trace, "sleep")
    /\ UNCHANGED <<slider, hasButton, clicks, timeout, t0, elapsed_t,
                   observed, plant, old_positions, new_positions, output,
                   published, polls, pubs, sets, evals, lastSet,
                   movedSinceEval, movedMidIter, setsSinceMove>>

SetPositions_NoPublish ==
    /\ pc = "setpos"
    /\ pc' = "poll"
    /\ plant' = new_positions
    /\ sets' = Sat(sets)
    /\ setsSinceMove' = Sat(setsSinceMove)
    /\ trace' = Append(trace, "set")
    /\ UNCHANGED <<slider, hasButton, clicks, now, timeout, t0, elapsed_t,
                   observed, old_positions, new_positions, output, published,
                   sleepArg, polls, pubs, evals, lastSet, movedSinceEval,
                   movedMidIter>>

SetPositions_OldPositions ==
    /\ pc = "setpos"
    /\ pc' = "publish"
    /\ plant' = old_positions
    /\ sets' = Sat(sets)
    /\ setsSinceMove' = Sat(setsSinceMove)
    /\ trace' = Append(trace, "set")
    /\ UNCHANGED <<slider, hasButton, clicks, now, timeout, t0, elapsed_t,
                   observed, old_positions, new_positions, output, published,
                   sleepArg, polls, pubs, evals, lastSet, movedSinceEval,
                   movedMidIter>>

\* Line 127.
SetPositions ==
    /\ pc = "setpos"
    /\ pc' = "publish"
    /\ plant' = new_positions
    /\ sets' = Sat(sets)
    /\ setsSinceMove' = Sat(setsSinceMove)
    /\ trace' = Append(trace, "set")
    /\ UNCHANGED <<slider, hasButton, clicks, now, timeout, t0, elapsed_t,
                   observed, old_positions, new_positions, output, published,
                   sleepArg, polls, pubs, evals, lastSet, movedSinceEval,
                   movedMidIter>>

\* Line 128.
Publish ==
    /\ pc = "publish"
    /\ pc' = "poll"
    /\ published' = plant
    /\ pubs' = Sat(pubs)
    /\ trace' = Append(trace, "publish")
    /\ UNCHANGED <<slider, hasButton, clicks, now, timeout, t0, elapsed_t,
                   observed, plant, old_positions, new_positions, output,
                   sleepArg, polls, sets, evals, lastSet, movedSinceEval,
                   movedMidIter, setsSinceMove>>

Run ==
    \/ AddButton \/ GrabTime \/ FirstPublish \/ Poll \/ CheckTimeout
    \/ GetPositions \/ Eval \/ Compare \/ Sleep \/ SetPositions \/ Publish

Next ==
    \/ SetConfiguration
    \/ SliderMoved
    \/ Click
    \/ Tick
    \/ AddButton
    \/ GrabTime
    \/ FirstPublish
    \/ Poll
    \/ CheckTimeout
    \/ GetPositions
    \/ Eval
    \/ Compare
    \/ Sleep
    \/ SetPositions
    \/ Publish

Spec == Init /\ [][Next]_vars

\* The thread that runs Run is always scheduled again: no call in the loop
\* blocks.
LiveSpec == Spec /\ WF_vars(Run)

TypeOK ==
    /\ pc \in {"start", "t0", "publish0", "poll", "time", "getpos", "eval",
               "compare", "sleep", "setpos", "publish", "done"}
    /\ now \in 0..MaxTime
    /\ clicks \in 0..MaxClicks

(* ------------------------------ properties ----------------------------- *)

Count(s, e) == Cardinality({i \in 1..Len(s) : s[i] = e})
Contains(s, e) == \E i \in 1..Len(s) : s[i] = e

\* Every component of a is less than 0.001 away from that of b.
WithinTol(a, b) ==
    /\ Len(a) = Len(b)
    /\ \A i \in 1..Len(a) : a[i] - b[i] < 1000 /\ b[i] - a[i] < 1000

\* Run is back at the loop condition after an iteration of the loop body.
IterationEnded == pc = "poll" /\ polls > 0
\* ... and that iteration read the sliders.
IterationRead == IterationEnded /\ new_positions # <<>>

SkipTrace == <<"poll", "time", "getpos", "eval", "sleep">>
SetTrace  == <<"poll", "time", "getpos", "eval", "set", "publish">>

\* C1: once the stop button has been clicked, or the time elapsed since t0
\* has reached the timeout, Run eventually returns.
C1_Terminates ==
    ((hasButton /\ clicks >= 1) \/ (t0 # None /\ now - t0 >= timeout))
        ~> (pc = "done")

C1_Witness == pc = "done" /\ polls >= 2 /\ elapsed_t >= timeout /\ timeout > 0

\* C2: when Run has returned, the last poll saw at least one click or the
\* elapsed time read in the last iteration was at least the timeout.
C2_ExitReason ==
    pc = "done" =>
        \/ observed >= 1
        \/ observed = 0 /\ elapsed_t # None /\ elapsed_t >= timeout

C2_Witness == pc = "done" /\ observed = 0 /\ elapsed_t = timeout /\ sets >= 1

\* The four values of one segment, as the closed form gives them.
Expected(q) ==
    IF q = 0 THEN <<0, 100000, 100000, 0>>
    ELSE LET a == IF q > 0 THEN q ELSE -q
             s == SinTable[a \div 10]        \* sin(0.5 * |q|)
             c == IF s >= 0 THEN (20 * s) \div a ELSE -((20 * (-s)) \div a)
         IN  <<5000 * q, c, c, 5000 * q>>

QSample == {-630, -10, 0, 10, 620, 630}

\* C3: CC2AGRB returns 8 values, the first four the closed form of q1 and the
\* last four that of q2, each half independent of the other curvature.
C3_Conversion ==
    new_positions # <<>> =>
        /\ Len(new_positions) = 8
        /\ SubSeq(new_positions, 1, 4) = Expected(output[1])
        /\ SubSeq(new_positions, 5, 8) = Expected(output[2])
        /\ \A x \in QSample :
              /\ SubSeq(CC2AGRB(<<output[1], x>>), 1, 4)
                    = SubSeq(new_positions, 1, 4)
              /\ SubSeq(CC2AGRB(<<x, output[2]>>), 5, 8)
                    = SubSeq(new_positions, 5, 8)
              /\ CC2AGRB(<<x, output[2]>>) = Expected(x) \o Expected(output[2])

C3_Witness ==
    /\ pc = "compare"
    /\ output = <<-630, 0>>
    /\ new_positions = <<-3150000, -266, -266, -3150000, 0, 100000, 100000, 0>>

\* C4 as claimed: every iteration that returns to the loop condition slept
\* once.
C4_Original == IterationEnded => Count(trace, "sleep") = 1

\* C4 as amended: an iteration sleeps, once and for 0.01 s, exactly when it
\* finds the positions unchanged; an iteration that sets the positions
\* returns to the loop condition without sleeping.
C4_SleepOnlyWhenUnchanged ==
    IterationEnded =>
        IF WithinTol(new_positions, old_positions)
        THEN /\ Count(trace, "sleep") = 1
             /\ trace[Len(trace)] = "sleep"
             /\ sleepArg = 1
        ELSE /\ Count(trace, "sleep") = 0
             /\ sleepArg = None
             /\ Contains(trace, "set")

C4_Witness == IterationEnded /\ trace = SetTrace /\ sleepArg = None

\* C5: an iteration whose new positions are all within 0.001 of the plant's
\* calls neither SetPositions nor Publish; it sleeps and polls again.
C5_SkipLeavesPlant ==
    (IterationRead /\ WithinTol(new_positions, old_positions)) =>
        /\ trace = SkipTrace
        /\ plant = old_positions
        /\ published = old_positions

C5_Witness ==
    /\ IterationRead
    /\ WithinTol(new_positions, old_positions)
    /\ new_positions # old_positions
    /\ trace = SkipTrace

\* C6: one Publish precedes the first poll; in the loop a Publish follows each
\* SetPositions, before the next poll, and there is no other Publish.
C6_PublishOrder ==
    /\ pc \in {"start", "t0", "publish0"} => pubs = 0 /\ sets = 0
    /\ (pc = "poll" /\ polls = 0) =>
          /\ trace = <<"addbutton", "t0", "publish">>
          /\ pubs = 1 /\ sets = 0
    /\ polls > 0 =>
          /\ trace[1] = "poll"
          /\ \A i \in 1..Len(trace) :
                /\ trace[i] = "set" =>
                      IF i = Len(trace) THEN pc = "publish"
                      ELSE trace[i + 1] = "publish"
                /\ trace[i] = "publish" => i > 1 /\ trace[i - 1] = "set"
    /\ (polls > 0 /\ pc # "publish") =>
          /\ published = plant
          /\ Count(trace, "publish") = Count(trace, "set")
    /\ (polls > 0 /\ pubs < MaxCount) =>
          pubs = sets + (IF pc = "publish" THEN 0 ELSE 1)

C6_Witness ==
    /\ IterationEnded
    /\ trace = SetTrace
    /\ pubs = 2 /\ sets = 1
    /\ published = new_positions

\* The slider value Meshcat keeps for an argument v.
Kept(v, r) ==
    LET c == IF v < -628 THEN -628 ELSE IF v > 628 THEN 628 ELSE v
    IN  /\ r % 10 = 0
        /\ r - c <= 5 /\ c - r <= 5
InRangeOnStep(v) == v >= -628 /\ v <= 628 /\ v % 10 = 0

\* C7 as claimed: the evaluation after SetConfiguration((a, b)), with no
\* slider change in between, yields (a, b).
C7_Original == (pc = "compare" /\ lastSet # <<>>) => output = lastSet

\* C7 as amended: an evaluation yields the current slider values, q1 at index
\* 0 and q2 at index 1, and leaves the sliders alone; after
\* SetConfiguration((a, b)) it yields a and b truncated to the slider range
\* and rounded to the slider step, which is (a, b) when both are in the range
\* and on the step.
C7_OutputIsSliders ==
    /\ (pc = "compare" /\ ~movedSinceEval) =>
          /\ Len(output) = 2
          /\ output[1] = slider.q1
          /\ output[2] = slider.q2
    /\ (pc = "compare" /\ lastSet # <<>>) =>
          \A i \in 1..2 :
             /\ Kept(lastSet[i], output[i])
             /\ InRangeOnStep(lastSet[i]) => output[i] = lastSet[i]

C7_Witness ==
    /\ pc = "compare"
    /\ lastSet = <<10, -700>>
    /\ output = <<10, -630>>

\* C8: at the end of an iteration that read the sliders the plant is within
\* 0.001 of the positions computed in it, and equal to them if it called
\* SetPositions.
C8_BoundedLag ==
    IterationRead =>
        /\ WithinTol(plant, new_positions)
        /\ Contains(trace, "set") => plant = new_positions

C8_Witness ==
    /\ IterationRead
    /\ ~Contains(trace, "set")
    /\ plant # new_positions
    /\ polls >= 2

\* C9 as claimed: after the sliders stop moving there is at most one more
\* SetPositions.
C9_Original == setsSinceMove <= 1

\* C9 as amended: after the last slider move there are at most two more
\* SetPositions, and at most one unless the move fell between an iteration's
\* read of the sliders and its SetPositions.
C9_Quiescence ==
    /\ setsSinceMove <= (IF movedMidIter THEN 2 ELSE 1)
    /\ (pc = "compare" /\ ~movedSinceEval /\ plant = CC2AGRB(output)) =>
          WithinTol(new_positions, old_positions)

C9_Witness ==
    /\ setsSinceMove = 2
    /\ movedMidIter
    /\ IterationEnded
    /\ trace = SkipTrace

\* C10: the button is polled first, then the timeout, then the sliders: the
\* iteration that exits reads no slider and sets no position, and with
\* timeout <= 0 or the button clicked before the first poll Run makes one
\* Publish and no SetPositions.
C10_ExitBeforeRead ==
    /\ (pc = "done" /\ observed >= 1) => trace = <<"poll">>
    /\ (pc = "done" /\ observed = 0) =>
          /\ trace = <<"poll", "time">>
          /\ elapsed_t >= timeout
    /\ pc = "done" =>
          /\ old_positions = <<>> /\ new_positions = <<>> /\ output = <<>>
          /\ plant = published
    /\ (pc = "done" /\ (timeout <= 0 \/ (polls = 1 /\ observed >= 1))) =>
          /\ pubs = 1 /\ sets = 0 /\ evals = 0
          /\ plant \in PlantDefaults

C10_Witness ==
    /\ pc = "done"
    /\ timeout = 0
    /\ observed = 0
    /\ elapsed_t = 0
    /\ pubs = 1
====
